---------------------------- MODULE Spec2Model ----------------------------
(***************************************************************************)
(* KiloCodeManager (src/mcpm/clients/managers/kilocode.py): the manager of *)
(* the Kilo-Code MCP settings file.  The state is the config file on disk  *)
(* and the manager's resolved config_path; every public method is one      *)
(* action that loads the file, works on the in-memory document and, where  *)
(* the code does so, saves it back.                                        *)
(*                                                                         *)
(* JSON values.  A JSON scalar is written as the text of its literal       *)
(* ("true", "false", "1", "null").  A server entry is a record             *)
(*   [kind, lit, fields]                                                   *)
(* kind = "obj": a JSON object, fields maps its keys to their values;      *)
(* kind = "str": the JSON string lit;  kind = "null": JSON null.           *)
(* A document is a JSON object: `section` says whether it has the          *)
(* "mcpServers" key, `servers` is the JSON object stored under it, `other` *)
(* holds every other top-level key.  The names under mcpServers may hold   *)
(* any of the entries above, objects or not.                               *)
(*                                                                         *)
(* The result of a call is the text of the Python value it returns         *)
(* ("True", "False") or the name of the exception it raises.               *)
(***************************************************************************)
EXTENDS Naturals, Sequences, FiniteSets, TLC

VARIABLES
    file,          \* the config file: [state, doc]
    last,          \* the last call: what it was given, did and returned
    everDisabled,  \* names for which disable_server has returned True
    env,           \* constructor argument and host: [system, appdata, home, arg]
    constructed,   \* has __init__ run
    config_path    \* self.config_path

vars == <<file, last, everDisabled, env, constructed, config_path>>

-----------------------------------------------------------------------------
(* Finite maps (Python dicts / JSON objects) *)

NoMap == [k \in {} |-> ""]

Put(m, k, v) == [x \in (DOMAIN m) \cup {k} |-> IF x = k THEN v ELSE m[x]]

Del(m, k) == [x \in (DOMAIN m) \ {k} |-> m[x]]

Maps(K, V) == UNION {[S -> V] : S \in SUBSET K}

-----------------------------------------------------------------------------
(* The documents the file may hold *)

MaxServers == 2

NamePool == <<"a", "b", "c", "d">>

Names == {NamePool[i] : i \in 1..MaxServers}

Commands == {"python", "node"}

DisabledValues == {"true", "false", "1"}

OtherKeys == {"theme"}

Obj(f) == [kind |-> "obj", lit |-> "", fields |-> f]

Str(s) == [kind |-> "str", lit |-> s, fields |-> NoMap]

Null == [kind |-> "null", lit |-> "null", fields |-> NoMap]

ServerEntry(c) == Obj([k \in {"command"} |-> c])

ObjEntries ==
    {ServerEntry(c) : c \in Commands}
      \cup {Obj(Put(ServerEntry(c).fields, "disabled", d)) :
               c \in Commands, d \in DisabledValues}

StrLits == {"python", "disabled"}

Entries == ObjEntries \cup {Str(s) : s \in StrLits} \cup {Null}

Doc(s, m, o) == [section |-> s, servers |-> m, other |-> o]

Docs ==
    {Doc(TRUE, m, o) : m \in Maps(Names, Entries), o \in Maps(OtherKeys, {"dark"})}
      \cup {Doc(FALSE, NoMap, o) : o \in Maps(OtherKeys, {"dark"})}

NoDoc == Doc(FALSE, NoMap, NoMap)

JsonFile(d) == [state |-> "json", doc |-> d]

Missing == [state |-> "missing", doc |-> NoDoc]

Corrupt == [state |-> "corrupt", doc |-> NoDoc]

Files == {Missing, Corrupt} \cup {JsonFile(d) : d \in Docs}

-----------------------------------------------------------------------------
(* Python operators on a server entry *)

\* key in entry: dict membership, substring test on a str (on StrLits a
\* string contains the key only when it is the key), TypeError on None
py_in(key, e) ==
    CASE e.kind = "obj" -> IF key \in DOMAIN e.fields THEN "True" ELSE "False"
      [] e.kind = "str" -> IF key = e.lit THEN "True" ELSE "False"
      [] OTHER -> "TypeError"

-----------------------------------------------------------------------------
(* JSONClientManager: load and save *)

\* slip: the template is the bare empty object
_get_empty_config_bare == Doc(FALSE, NoMap, NoMap)

_get_empty_config == Doc(TRUE, NoMap, NoMap)

_load_config(f) == IF f.state = "json" THEN f.doc ELSE _get_empty_config

\* what a call hands back to its action
Outcome(res, f, w, mut, mapd) ==
    [result |-> res, file |-> f, wrote |-> w, mutated |-> mut, mapped |-> mapd]

\* the file after the document is written back (the write is taken to succeed:
\* failures of the filesystem are outside this model)
_save_config(config) == JsonFile(config)

\* return self._save_config(config), after a mutation of a document whose
\* mcpServers mapping was present (mapd) or not
Saved(config, mapd) == Outcome("True", _save_config(config), TRUE, TRUE, mapd)

-----------------------------------------------------------------------------
(* KiloCodeManager *)

\* slip: returns True without saving the mutated document
disable_server_unsaved(f, server_name) ==
    LET config == _load_config(f) IN
    IF ~config.section \/ server_name \notin DOMAIN config.servers
    THEN Outcome("False", f, FALSE, FALSE, FALSE)
    ELSE LET e == config.servers[server_name] IN
         IF e.kind # "obj"
         THEN Outcome("TypeError", f, FALSE, TRUE, config.section)
         ELSE Outcome("True", f, FALSE, TRUE, config.section)

\* slip: an absent name is created (setdefault) instead of reported
disable_server_creates(f, server_name) ==
    LET config == _load_config(f)
        e == IF config.section /\ server_name \in DOMAIN config.servers
             THEN config.servers[server_name] ELSE Obj(NoMap)
    IN  IF e.kind # "obj"
        THEN Outcome("TypeError", f, FALSE, TRUE, config.section)
        ELSE Saved(
                 [config EXCEPT !.section = TRUE,
                                !.servers = Put(config.servers, server_name,
                                                Obj(Put(e.fields, "disabled", "true")))],
                 TRUE)

\* slip: the section test is dropped, config["mcpServers"] raises KeyError
disable_server_unguarded(f, server_name) ==
    LET config == _load_config(f) IN
    IF ~config.section
    THEN Outcome("KeyError", f, FALSE, TRUE, config.section)
    ELSE IF server_name \notin DOMAIN config.servers
    THEN Outcome("False", f, FALSE, FALSE, FALSE)
    ELSE LET e == config.servers[server_name] IN
         IF e.kind # "obj"
         THEN Outcome("TypeError", f, FALSE, TRUE, config.section)
         ELSE Saved(
                  [config EXCEPT !.servers[server_name] =
                       Obj(Put(e.fields, "disabled", "true"))],
                  config.section)

\* slip: the entry is replaced by {"disabled": true}
disable_server_replaces(f, server_name) ==
    LET config == _load_config(f) IN
    IF ~config.section \/ server_name \notin DOMAIN config.servers
    THEN Outcome("False", f, FALSE, FALSE, FALSE)
    ELSE LET e == config.servers[server_name] IN
         IF e.kind # "obj"
         THEN Outcome("TypeError", f, FALSE, TRUE, config.section)
         ELSE Saved(
                  [config EXCEPT !.servers[server_name] =
                       Obj(Put(NoMap, "disabled", "true"))],
                  config.section)

disable_server(f, server_name) ==
    LET config == _load_config(f) IN
    IF ~config.section \/ server_name \notin DOMAIN config.servers
    THEN Outcome("False", f, FALSE, FALSE, FALSE)
    ELSE LET e == config.servers[server_name] IN
         IF e.kind # "obj"
         THEN Outcome("TypeError", f, FALSE, TRUE, config.section)
         ELSE Saved(
                  [config EXCEPT !.servers[server_name] =
                       Obj(Put(e.fields, "disabled", "true"))],
                  config.section)

\* slip: pops the key and saves whether or not it was there
enable_server_always_saves(f, server_name) ==
    LET config == _load_config(f) IN
    IF ~config.section \/ server_name \notin DOMAIN config.servers
    THEN Outcome("False", f, FALSE, FALSE, FALSE)
    ELSE LET e == config.servers[server_name] IN
         IF e.kind # "obj"
         THEN Outcome("AttributeError", f, FALSE, TRUE, config.section)
         ELSE Saved(
                  [config EXCEPT !.servers[server_name] =
                       Obj(Del(e.fields, "disabled"))],
                  config.section)

\* slip: sets disabled = False instead of deleting the key
enable_server_sets_false(f, server_name) ==
    LET config == _load_config(f) IN
    IF ~config.section \/ server_name \notin DOMAIN config.servers
    THEN Outcome("False", f, FALSE, FALSE, FALSE)
    ELSE LET e == config.servers[server_name] IN
         CASE py_in("disabled", e) = "TypeError" ->
                  Outcome("TypeError", f, FALSE, FALSE, FALSE)
           [] py_in("disabled", e) = "False" ->
                  Outcome("True", f, FALSE, FALSE, FALSE)
           [] OTHER ->
                  IF e.kind # "obj"
                  THEN Outcome("TypeError", f, FALSE, TRUE, config.section)
                  ELSE Saved(
                           [config EXCEPT !.servers[server_name] =
                                Obj(Put(e.fields, "disabled", "false"))],
                           config.section)

enable_server(f, server_name) ==
    LET config == _load_config(f) IN
    IF ~config.section \/ server_name \notin DOMAIN config.servers
    THEN Outcome("False", f, FALSE, FALSE, FALSE)
    ELSE LET e == config.servers[server_name] IN
         CASE py_in("disabled", e) = "TypeError" ->
                  Outcome("TypeError", f, FALSE, FALSE, FALSE)
           [] py_in("disabled", e) = "False" ->
                  Outcome("True", f, FALSE, FALSE, FALSE)
           [] OTHER ->
                  IF e.kind # "obj"
                  THEN Outcome("TypeError", f, FALSE, TRUE, config.section)
                  ELSE Saved(
                           [config EXCEPT !.servers[server_name] =
                                Obj(Del(e.fields, "disabled"))],
                           config.section)

is_server_disabled(f, server_name) ==
    LET config == _load_config(f) IN
    IF ~config.section \/ server_name \notin DOMAIN config.servers
    THEN Outcome("False", f, FALSE, FALSE, FALSE)
    ELSE LET e == config.servers[server_name] IN
         IF e.kind # "obj"
         THEN Outcome("AttributeError", f, FALSE, FALSE, FALSE)
         ELSE IF "disabled" \in DOMAIN e.fields /\ e.fields["disabled"] = "true"
              THEN Outcome("True", f, FALSE, FALSE, FALSE)
              ELSE Outcome("False", f, FALSE, FALSE, FALSE)

-----------------------------------------------------------------------------
(* JSONClientManager: the generic operations KiloCodeManager inherits *)

\* get_servers: the mapping under mcpServers of the loaded document
get_servers(f) ==
    LET config == _load_config(f) IN
    IF config.section THEN config.servers ELSE NoMap

\* list_servers: the names of get_servers (their order is not modelled)
list_servers(f) == DOMAIN get_servers(f)

\* add_server: upsert by name; the mcpServers mapping is created if missing
add_server(f, server_name, command) ==
    LET config == _load_config(f)
        seeded == IF config.section THEN config
                  ELSE [config EXCEPT !.section = TRUE, !.servers = NoMap]
    IN  Saved(
            [seeded EXCEPT !.servers = Put(seeded.servers, server_name,
                                           ServerEntry(command))],
            seeded.section)

\* slip: the entries that stay lose their disabled marker
remove_server_strips(f, server_name) ==
    LET config == _load_config(f) IN
    IF ~config.section \/ server_name \notin DOMAIN config.servers
    THEN Outcome("False", f, FALSE, FALSE, FALSE)
    ELSE Saved(
             [config EXCEPT !.servers =
                  [m \in (DOMAIN config.servers) \ {server_name} |->
                      IF config.servers[m].kind = "obj"
                      THEN Obj(Del(config.servers[m].fields, "disabled"))
                      ELSE config.servers[m]]],
             config.section)

\* remove_server: fails if the name is absent, else deletes that entry
remove_server(f, server_name) ==
    LET config == _load_config(f) IN
    IF ~config.section \/ server_name \notin DOMAIN config.servers
    THEN Outcome("False", f, FALSE, FALSE, FALSE)
    ELSE Saved([config EXCEPT !.servers = Del(config.servers, server_name)],
                      config.section)

-----------------------------------------------------------------------------
(* Path resolution *)

\* paths are sequences of segments; the empty string is the empty sequence
Settings ==
    <<"Code", "User", "globalStorage", "kilocode.kilo-code", "settings",
      "mcp_settings.json">>

\* os.path.expanduser of "~/..." : the home directory replaces the tilde
expanduser(e, p) == IF p # <<>> /\ Head(p) = "~" THEN e.home \o Tail(p) ELSE p

\* os.path.join: an empty first component contributes nothing
os_path_join(a, rest) == IF a = <<>> THEN rest ELSE a \o rest

\* os.environ.get("APPDATA", "")
environ_get_APPDATA(e) == IF e.appdata.set THEN e.appdata.val ELSE <<>>

__init__(e) ==
    IF e.arg.given /\ e.arg.path # <<>>
    THEN e.arg.path
    ELSE CASE e.system = "Darwin" ->
                  expanduser(e, <<"~", "Library", "Application Support">> \o Settings)
           [] e.system = "Windows" ->
                  os_path_join(environ_get_APPDATA(e), Settings)
           [] OTHER ->
                  expanduser(e, <<"~", ".config">> \o Settings)

-----------------------------------------------------------------------------
(* Actions *)

Call(op, name, r) ==
    /\ file' = r.file
    /\ last' = [op |-> op, name |-> name, result |-> r.result, wrote |-> r.wrote,
                mutated |-> r.mutated, mapped |-> r.mapped, pre |-> file]

DisableServer ==
    \E n \in Names :
        /\ constructed
        /\ Call("disable_server", n, disable_server(file, n))
        /\ everDisabled' =
               IF disable_server(file, n).result = "True"
               THEN everDisabled \cup {n} ELSE everDisabled
        /\ UNCHANGED <<env, constructed, config_path>>

EnableServer ==
    \E n \in Names :
        /\ constructed
        /\ Call("enable_server", n, enable_server(file, n))
        /\ UNCHANGED <<everDisabled, env, constructed, config_path>>

IsServerDisabled ==
    \E n \in Names :
        /\ constructed
        /\ Call("is_server_disabled", n, is_server_disabled(file, n))
        /\ UNCHANGED <<everDisabled, env, constructed, config_path>>

AddServer ==
    \E n \in Names, c \in Commands :
        /\ constructed
        /\ Call("add_server", n, add_server(file, n, c))
        /\ UNCHANGED <<everDisabled, env, constructed, config_path>>

RemoveServer ==
    \E n \in Names :
        /\ constructed
        /\ Call("remove_server", n, remove_server(file, n))
        /\ UNCHANGED <<everDisabled, env, constructed, config_path>>

Construct ==
    /\ ~constructed
    /\ constructed' = TRUE
    /\ config_path' = __init__(env)
    /\ UNCHANGED <<file, last, everDisabled, env>>

NoCall(f) ==
    [op |-> "none", name |-> "", result |-> "", wrote |-> FALSE,
     mutated |-> FALSE, mapped |-> FALSE, pre |-> f]

CustomPath == <<"custom", "path", "config.json">>

Init ==
    /\ file \in Files
    /\ last = NoCall(file)
    /\ everDisabled = {}
    /\ env = [system |-> "Linux", appdata |-> [set |-> FALSE, val |-> <<>>],
              home |-> <<"home", "u">>, arg |-> [given |-> TRUE, path |-> CustomPath]]
    /\ constructed = TRUE
    /\ config_path = CustomPath

Next ==
    \/ DisableServer
    \/ EnableServer
    \/ IsServerDisabled
    \/ AddServer
    \/ RemoveServer

Spec == Init /\ [][Next]_vars

(* Construction alone, over every constructor argument and host *)

Systems == {"Darwin", "Windows", "Linux", "FreeBSD"}

AppData ==
    {[set |-> FALSE, val |-> <<>>], [set |-> TRUE, val |-> <<>>],
     [set |-> TRUE, val |-> <<"C:", "Users", "Test", "AppData", "Roaming">>]}

Homes == {<<"home", "u">>, <<"Users", "u">>}

Args ==
    {[given |-> FALSE, path |-> <<>>], [given |-> TRUE, path |-> <<>>],
     [given |-> TRUE, path |-> CustomPath], [given |-> TRUE, path |-> <<"cfg.json">>]}

Envs == [system : Systems, appdata : AppData, home : Homes, arg : Args]

InitPath ==
    /\ file = Missing
    /\ last = NoCall(Missing)
    /\ everDisabled = {}
    /\ env \in Envs
    /\ constructed = FALSE
    /\ config_path = <<>>

NextPath == Construct

SpecPath == InitPath /\ [][NextPath]_vars

-----------------------------------------------------------------------------
(* What a file says about a name, read off the document itself *)

HasEntry(f, n) == f.state = "json" /\ f.doc.section /\ n \in DOMAIN f.doc.servers

IsObjEntry(f, n) == HasEntry(f, n) /\ f.doc.servers[n].kind = "obj"

\* the entry's disabled value, "absent" when it has no such key
Marker(f, n) ==
    IF "disabled" \in DOMAIN f.doc.servers[n].fields
    THEN f.doc.servers[n].fields["disabled"] ELSE "absent"

\* the entry without its disabled key
Unmarked(f, n) ==
    [kind |-> f.doc.servers[n].kind, lit |-> f.doc.servers[n].lit,
     fields |-> Del(f.doc.servers[n].fields, "disabled")]

Toggled == last.op \in {"disable_server", "enable_server"}

-----------------------------------------------------------------------------
(* Properties *)

\* C1: once disable_server(n) has returned True, is_server_disabled(n) is
\* True; once a later enable_server(n) has returned True it is False again,
\* at every repetition and whatever the entry held before the first disable.
C1_DisableEnableRoundTrip ==
    /\ (last.op = "disable_server" /\ last.result = "True")
           => is_server_disabled(file, last.name).result = "True"
    /\ (last.op = "enable_server" /\ last.result = "True"
            /\ last.name \in everDisabled)
           => is_server_disabled(file, last.name).result = "False"

C1_Witness ==
    /\ last.op = "enable_server" /\ last.result = "True"
    /\ last.name \in everDisabled
    /\ IsObjEntry(last.pre, last.name) /\ Marker(last.pre, last.name) = "true"

\* C2: disable_server and enable_server on a name that is not a key of
\* mcpServers (no such key, no section, missing or unparsable file) return
\* False, raise nothing and leave the file as it was, existence included.
C2_NotFoundFailsWithoutWrite ==
    (Toggled /\ ~HasEntry(last.pre, last.name))
        => /\ last.result = "False"
           /\ ~last.wrote
           /\ file = last.pre

C2_Witness ==
    /\ Toggled /\ ~HasEntry(last.pre, last.name)
    /\ last.pre.state = "json" /\ last.pre.doc.section
    /\ last.pre.doc.servers # NoMap

\* C3: enable_server on an existing entry without a disabled key returns
\* True and does not write: the file is what it was.
C3_EnableAlreadyEnabledNoWrite ==
    (last.op = "enable_server" /\ IsObjEntry(last.pre, last.name)
        /\ Marker(last.pre, last.name) = "absent")
        => /\ last.result = "True"
           /\ ~last.wrote
           /\ file = last.pre

C3_Witness ==
    /\ last.op = "enable_server" /\ IsObjEntry(last.pre, last.name)
    /\ Marker(last.pre, last.name) = "absent"
    /\ last.result = "True"

\* C4: is_server_disabled(n) returns True exactly when the document has the
\* section, n is a key of it and that entry's disabled value is the boolean
\* true; for every other document and name, entries of any shape included,
\* it returns False without raising; it never changes the file.
C4_IsServerDisabledIffTrue ==
    last.op = "is_server_disabled"
        => /\ last.result =
                  IF IsObjEntry(last.pre, last.name)
                       /\ Marker(last.pre, last.name) = "true"
                  THEN "True" ELSE "False"
           /\ ~last.wrote
           /\ file = last.pre

\* C5: a call of disable_server or enable_server leaves the entry it writes
\* with disabled = true (disable) or without the key (enable); no entry ever
\* gets disabled = false or any other value from such a call.
C5_TwoMarkerStates ==
    Toggled
        => /\ (last.op = "disable_server" /\ last.wrote)
                  => (IsObjEntry(file, last.name) /\ Marker(file, last.name) = "true")
           /\ (last.op = "enable_server" /\ last.wrote)
                  => (IsObjEntry(file, last.name) /\ Marker(file, last.name) = "absent")
           /\ (last.result = "True" /\ IsObjEntry(file, last.name))
                  => Marker(file, last.name) \in {"absent", "true"}
           /\ \A m \in Names :
                  IsObjEntry(file, m)
                      => \/ Marker(file, m) \in {"absent", "true"}
                         \/ (IsObjEntry(last.pre, m)
                               /\ Marker(file, m) = Marker(last.pre, m))

C5_Witness ==
    /\ last.op = "enable_server" /\ last.wrote
    /\ Marker(last.pre, last.name) = "false"

\* C6: a missing or unparsable file loads as {"mcpServers": {}}: get_servers
\* is the empty mapping, list_servers is empty, and a following add_server
\* succeeds and leaves a valid document holding the added server.
C6_MissingOrCorruptLoadsEmpty ==
    /\ file.state \in {"missing", "corrupt"}
           => /\ _load_config(file) = Doc(TRUE, NoMap, NoMap)
              /\ get_servers(file) = NoMap
              /\ list_servers(file) = {}
    /\ (last.op = "add_server" /\ last.pre.state \in {"missing", "corrupt"})
           => /\ last.result = "True"
              /\ IsObjEntry(file, last.name)
              /\ DOMAIN file.doc.servers = {last.name}
              /\ "command" \in DOMAIN file.doc.servers[last.name].fields

C6_Witness ==
    /\ last.op = "add_server" /\ last.pre.state = "corrupt"
    /\ last.result = "True"

\* C7: remove_server of an absent name returns False and leaves the file as
\* it was; of a present name it returns True, removes that entry only and
\* keeps every other entry with all its fields, the disabled marker included.
C7_RemoveServerFrame ==
    last.op = "remove_server"
        => IF ~HasEntry(last.pre, last.name)
           THEN /\ last.result = "False"
                /\ ~last.wrote
                /\ file = last.pre
           ELSE /\ last.result = "True"
                /\ file.state = "json" /\ file.doc.section
                /\ DOMAIN file.doc.servers
                       = (DOMAIN last.pre.doc.servers) \ {last.name}
                /\ \A m \in DOMAIN file.doc.servers :
                       file.doc.servers[m] = last.pre.doc.servers[m]

C7_Witness ==
    /\ last.op = "remove_server" /\ last.result = "True"
    /\ \E m \in DOMAIN file.doc.servers :
           IsObjEntry(file, m) /\ Marker(file, m) = "true"

\* the path each host is documented to get when no path is supplied
DocumentedPath(e) ==
    CASE e.system = "Darwin" ->
             e.home \o <<"Library", "Application Support">> \o Settings
      [] e.system = "Windows" ->
             (IF e.appdata.set THEN e.appdata.val ELSE <<>>) \o Settings
      [] OTHER -> e.home \o <<".config">> \o Settings

\* C8: config_path is the supplied path verbatim whenever one is supplied,
\* whatever its value; with none supplied it is the macOS path on Darwin,
\* the APPDATA path on Windows (empty for an unset APPDATA) and the
\* ~/.config path on every other host.
C8_ConfigPathOfArgAndHost ==
    constructed
        => config_path = IF env.arg.given THEN env.arg.path
                         ELSE DocumentedPath(env)

\* C9: whenever disable_server, enable_server, add_server or remove_server
\* attempts to change a server entry, the loaded document has its mcpServers
\* mapping, created where the file's document lacked it.
C9_SectionPresentAtMutation ==
    /\ last.mutated => last.mapped
    /\ (last.op \in {"disable_server", "enable_server", "remove_server"}
            /\ ~_load_config(last.pre).section)
           => ~last.mutated
    /\ last.op = "add_server"
           => (last.mutated /\ file.state = "json" /\ file.doc.section)

C9_Witness ==
    /\ last.op = "add_server" /\ last.mutated
    /\ last.pre.state = "json" /\ ~last.pre.doc.section
    /\ file.doc.section

\* C10: a successful disable_server(n) or enable_server(n) changes nothing
\* of the persisted document but the disabled key of entry n; disabling an
\* entry that is already disabled succeeds and leaves the document equal.
C10_OnlyMarkerChanges ==
    (Toggled /\ last.result = "True")
        => /\ HasEntry(last.pre, last.name) /\ HasEntry(file, last.name)
           /\ file.doc.other = last.pre.doc.other
           /\ DOMAIN file.doc.servers = DOMAIN last.pre.doc.servers
           /\ \A m \in (DOMAIN file.doc.servers) \ {last.name} :
                  file.doc.servers[m] = last.pre.doc.servers[m]
           /\ Unmarked(file, last.name) = Unmarked(last.pre, last.name)
           /\ (last.op = "disable_server" /\ Marker(last.pre, last.name) = "true")
                  => file.doc = last.pre.doc

C10_Witness ==
    /\ last.op = "disable_server" /\ last.result = "True"
    /\ Marker(last.pre, last.name) = "true"
    /\ last.pre.doc.other # NoMap
    /\ Cardinality(DOMAIN last.pre.doc.servers) > 1

=============================================================================
